---- MODULE Spec2Model ----
(***************************************************************************)
(* Batched multi-key lookup coordination: MultiGetContext / Range /        *)
(* Range::Iterator (table/multiget_context.h) and the AsyncFileReader      *)
(* coordinator (util/async_file_reader.cc).                                *)
(*                                                                         *)
(* Three specifications share the module:                                  *)
(*   Spec        the MultiGetContext, its Ranges and their Iterators       *)
(*   FamilySpec  the same, with the full Range and sub-ranges of it only   *)
(*   ReaderSpec  the AsyncFileReader: MultiReadAsyncImpl and Wait          *)
(* The variables of the part a specification does not drive keep their     *)
(* initial value.                                                          *)
(***************************************************************************)
EXTENDS Integers, Sequences, FiniteSets, TLC

VARIABLES
  ctx_state,    \* "none" | "live" | "undefined" (constructor wrote out of bounds)
  num_keys_,    \* MultiGetContext::num_keys_
  value_mask_,  \* MultiGetContext::value_mask_, as the set of its set bits
  lkey_slots,   \* indexes of lookup_key_ptr_[] the constructor wrote to
  ranges,       \* the Range objects over the context, in order of creation
  cursor,       \* a Range::Iterator a caller keeps and steps, with what it visited
  head_,        \* AsyncFileReader::head_ (0 is nullptr)
  tail_,        \* AsyncFileReader::tail_ (0 is nullptr)
  num_reqs_,    \* AsyncFileReader::num_reqs_
  awaiters,     \* the ReadAwaiter objects, by address
  pc,           \* where the single thread is: outside Wait(), or inside it
  waiter,       \* Wait()'s local variable `waiter`
  polls,        \* the handle lists FileSystem::Poll was called with, in order
  resumed,      \* the awaiters (by id) whose coroutine was resumed, in order
  deleted,      \* the io_handles passed to their del_fn, in order
  histogram,    \* the samples recorded in MULTIGET_IO_BATCH_SIZE
  next_handle,  \* the next io_handle the file system gives out
  next_id,      \* the number of the next ReadAwaiter constructed
  wait_pending, \* the awaiters (by id) enqueued, outside Wait(), since Wait() last returned
  wait_calls,   \* the number of calls of Wait() so far
  drained_reqs  \* the requests of the waiters the Wait() in progress has resumed

ctxVars == <<ctx_state, num_keys_, value_mask_, lkey_slots, ranges, cursor>>
readerVars == <<head_, tail_, num_reqs_, awaiters, pc, waiter, polls, resumed,
                deleted, histogram, next_handle, next_id, wait_pending,
                wait_calls, drained_reqs>>
vars == <<ctx_state, num_keys_, value_mask_, lkey_slots, ranges, cursor,
          head_, tail_, num_reqs_, awaiters, pc, waiter, polls, resumed,
          deleted, histogram, next_handle, next_id, wait_pending, wait_calls,
          drained_reqs>>

(***************************************************************************)
(* Bounds of the model.                                                    *)
(***************************************************************************)
MaxKeys == 2
MaxRanges == 2
MaxFlows == 2
MaxEnqueues == 3
MaxReqs == 3
MaxWaits == 2

(***************************************************************************)
(* Program constants.                                                      *)
(***************************************************************************)
MAX_KEYS_ON_STACK == 32
\* width of uint64_t value_mask_ / skip_mask_
MaskBits == 64

(***************************************************************************)
(* uint64_t as the set of the positions of its set bits.                   *)
(***************************************************************************)
AllBits == 0..(MaskBits - 1)

\* 1ull << i.  Every shift the live states perform has i < MaskBits
\* (IndexInWord below); a shift by 64 or more is undefined in C++.
Shl1(i) == {i}

\* x - 1 on uint64_t (borrow through the low zero bits; 0 wraps to all ones)
MinusOne(x) ==
  IF x = {} THEN AllBits
  ELSE LET k == CHOOSE b \in x : \A c \in x : b <= c
       IN  (x \ {k}) \cup {b \in AllBits : b < k}

BitNot(x) == AllBits \ x

NoRange == 0
TheCtx == 1

(***************************************************************************)
(* Range::Iterator                                                         *)
(***************************************************************************)
\* Iterator(const Range* range, size_t index): while (index_ < end_ &&
\* (1ull << index_) & (value_mask_ | skip_mask_)) index_++;
RECURSIVE IteratorCtorLoop(_, _, _)
IteratorCtorLoop(rg, vm, index) ==
  IF index < rg.end_ /\ (Shl1(index) \cap (vm \cup rg.skip_mask_)) # {}
  THEN IteratorCtorLoop(rg, vm, index + 1)
  ELSE index

\* operator++: while (++index_ < end_ && (1ull << index_) & (...)) ;
RECURSIVE IncrLoopSkipOnly(_, _, _)
IncrLoopSkipOnly(rg, vm, index) ==
  LET j == index + 1
  IN  IF j < rg.end_ /\ (Shl1(j) \cap rg.skip_mask_) # {}
      THEN IncrLoopSkipOnly(rg, vm, j)
      ELSE j

\* a ++ that steps once and does not look at the masks
IncrLoopByOne(rg, vm, index) == index + 1

RECURSIVE IncrLoop(_, _, _)
IncrLoop(rg, vm, index) ==
  LET j == index + 1
  IN  IF j < rg.end_ /\ (Shl1(j) \cap (vm \cup rg.skip_mask_)) # {}
      THEN IncrLoop(rg, vm, j)
      ELSE j

\* Range::begin() / Range::end(): the index_ of the iterator returned
BeginIndex(rg, vm) == IteratorCtorLoop(rg, vm, rg.start_)
EndIndex(rg, vm) == IteratorCtorLoop(rg, vm, rg.end_)

\* for (it = begin(); it != end(); ++it) visit(it.index_): the positions
\* visited, in order.  The loop is cut after MaskBits + 2 steps, a length no
\* terminating iteration reaches; a cut run ends with the mark -1.
RECURSIVE IterateFrom(_, _, _, _)
IterateFrom(rg, vm, index, fuel) ==
  IF index = EndIndex(rg, vm) THEN <<>>
  ELSE IF fuel = 0 THEN <<-1>>
  ELSE <<index>> \o IterateFrom(rg, vm, IncrLoop(rg, vm, index), fuel - 1)

Iterate(rg, vm) == IterateFrom(rg, vm, BeginIndex(rg, vm), MaskBits + 2)

(***************************************************************************)
(* Range                                                                   *)
(***************************************************************************)
\* Range(MultiGetContext* ctx, size_t num_keys)
FullRange(n) ==
  [ctx_ |-> TheCtx, start_ |-> 0, end_ |-> n, skip_mask_ |-> {}, parent |-> NoRange]

\* Range(const Range& mget_range, const Iterator& first, const Iterator& last)
SubRangeFreshMask(p, mget_range, first, last) ==
  [ctx_ |-> mget_range.ctx_, start_ |-> first.index_, end_ |-> last.index_,
   skip_mask_ |-> {}, parent |-> p]

SubRangeEndPastLast(p, mget_range, first, last) ==
  [ctx_ |-> mget_range.ctx_, start_ |-> first.index_, end_ |-> last.index_ + 1,
   skip_mask_ |-> mget_range.skip_mask_, parent |-> p]

SubRangeOf(p, mget_range, first, last) ==
  [ctx_ |-> mget_range.ctx_, start_ |-> first.index_, end_ |-> last.index_,
   skip_mask_ |-> mget_range.skip_mask_, parent |-> p]

\* bool empty()
EmptyOffByOne(rg, vm) ==
  (MinusOne(Shl1(rg.end_ - 1)) \cap BitNot(MinusOne(Shl1(rg.start_)))
     \cap BitNot(vm) \cap BitNot(rg.skip_mask_)) = {}

Empty(rg, vm) ==
  (MinusOne(Shl1(rg.end_)) \cap BitNot(MinusOne(Shl1(rg.start_)))
     \cap BitNot(vm) \cap BitNot(rg.skip_mask_)) = {}

\* SkipKey: skip_mask_ |= 1ull << iter.index_
SkipMaskAfter(skip, index) == skip \cup Shl1(index)

\* the Ranges after ranges[r].SkipKey: skip_mask_ is a member of the Range
RangesAfterSkipShared(rs, r, index) ==
  [q \in DOMAIN rs |-> [rs[q] EXCEPT !.skip_mask_ = SkipMaskAfter(@, index)]]

RangesAfterSkip(rs, r, index) ==
  [rs EXCEPT ![r].skip_mask_ = SkipMaskAfter(@, index)]

\* MarkKeyDone: ctx_->value_mask_ |= (1ull << iter.index_)
ValueMaskShiftedOne(vm, index) == vm \cup Shl1(index + 1)

ValueMaskReplaced(vm, index) == Shl1(index)

ValueMaskAfter(vm, index) == vm \cup Shl1(index)

\* CheckKeyDone: ctx_->value_mask_ & (1ull << iter.index_)
CheckKeyDone(rg, vm, index) == (vm \cap Shl1(index)) # {}

(***************************************************************************)
(* MultiGetContext                                                         *)
(***************************************************************************)
\* The batch sizes a caller hands to the constructor: the small ones, and one
\* beyond each fixed capacity (the inline buffer, the width of the masks).
BatchSizes == (0..MaxKeys) \cup {MAX_KEYS_ON_STACK + 1, MaskBits + 1}

\* no Iterator kept
NoCursor ==
  [range_ |-> NoRange, index_ |-> 0, steps |-> 0, yielded |-> <<>>, at_begin |-> {}]

InitCtx ==
  /\ ctx_state = "none"
  /\ num_keys_ = 0
  /\ value_mask_ = {}
  /\ lkey_slots = {}
  /\ ranges = <<>>
  /\ cursor = NoCursor

\* for (iter = 0; iter != num_keys_; ++iter) new (&lookup_key_ptr_[index]) ...;
\* index++ : the slots of lookup_key_ptr_ (== lookup_key_buf) written
SlotsWritten(n) == 0..(n - 1)

\* MultiGetContext(sorted_keys, num_keys, snapshot).  lookup_key_buf holds
\* MAX_KEYS_ON_STACK slots; a placement new beyond it is undefined behaviour,
\* after which the model describes no operation on the context.
Construct(n) ==
  /\ ctx_state = "none"
  /\ num_keys_' = n
  /\ value_mask_' = {}
  /\ lkey_slots' = SlotsWritten(n)
  /\ ctx_state' = IF \A i \in SlotsWritten(n) : i < MAX_KEYS_ON_STACK
                  THEN "live" ELSE "undefined"
  /\ UNCHANGED ranges
  /\ UNCHANGED cursor
  /\ UNCHANGED readerVars

\* ~MultiGetContext(); the Ranges are stack objects of the same request and
\* are gone with it.
Destroy ==
  /\ ctx_state # "none"
  /\ ctx_state' = "none"
  /\ num_keys_' = 0
  /\ value_mask_' = {}
  /\ lkey_slots' = {}
  /\ ranges' = <<>>
  /\ cursor' = NoCursor
  /\ UNCHANGED readerVars

\* The Iterator objects a caller can hold on Range r: an Iterator is a value
\* (range_, index_) made by begin(), end(), ++ or copy; it stays where it is
\* while the masks change, so it may stand on any index from start_ to end_.
IteratorsOf(r) ==
  {[range_ |-> r, index_ |-> i] : i \in ranges[r].start_..ranges[r].end_}

\* An iterator that may be dereferenced and handed to SkipKey / MarkKeyDone:
\* it stands on a key of its Range (the asserts of operator* and operator->).
Dereferenceable(it) ==
  /\ it.index_ < ranges[it.range_].end_
  /\ it.index_ >= ranges[it.range_].start_

\* Range GetMultiGetRange() { return Range(this, num_keys_); }
GetMultiGetRange ==
  /\ ctx_state = "live"
  /\ ranges' = Append(ranges, FullRange(num_keys_))
  /\ UNCHANGED <<ctx_state, num_keys_, value_mask_, lkey_slots>>
  /\ UNCHANGED cursor
  /\ UNCHANGED readerVars

\* Range(mget_range, first, last) with first and last two iterators of
\* mget_range, first not after last (the half-open span [first, last)).
SubRange(p, first, last) ==
  /\ ctx_state = "live"
  /\ first.range_ = p
  /\ last.range_ = p
  /\ first.index_ <= last.index_
  /\ ranges' = Append(ranges, SubRangeOf(p, ranges[p], first, last))
  /\ UNCHANGED <<ctx_state, num_keys_, value_mask_, lkey_slots>>
  /\ UNCHANGED cursor
  /\ UNCHANGED readerVars

\* ranges[r].SkipKey(iter)
SkipKey(r, iter) ==
  /\ ctx_state = "live"
  /\ Dereferenceable(iter)
  /\ ranges' = RangesAfterSkip(ranges, r, iter.index_)
  /\ UNCHANGED <<ctx_state, num_keys_, value_mask_, lkey_slots>>
  /\ UNCHANGED cursor
  /\ UNCHANGED readerVars

\* ranges[r].MarkKeyDone(iter)
MarkKeyDone(r, iter) ==
  /\ ctx_state = "live"
  /\ Dereferenceable(iter)
  /\ value_mask_' = ValueMaskAfter(value_mask_, iter.index_)
  /\ UNCHANGED <<ctx_state, num_keys_, lkey_slots, ranges>>
  /\ UNCHANGED cursor
  /\ UNCHANGED readerVars

\* it = ranges[r].begin(); the loop body runs on the key it stands on unless
\* it == end().  at_begin keeps the masks as they were, yielded the positions
\* the body ran on, steps the number of ++ so far.
IterBegin(r) ==
  /\ ctx_state = "live"
  /\ LET b == BeginIndex(ranges[r], value_mask_)
     IN  cursor' = [range_ |-> r, index_ |-> b, steps |-> 0,
                    yielded |-> IF b # EndIndex(ranges[r], value_mask_)
                                THEN <<b>> ELSE <<>>,
                    at_begin |-> value_mask_ \cup ranges[r].skip_mask_]
  /\ UNCHANGED <<ctx_state, num_keys_, value_mask_, lkey_slots, ranges>>
  /\ UNCHANGED readerVars

\* ++it, in a loop that goes on while it != end()
IterIncr ==
  /\ ctx_state = "live"
  /\ cursor.range_ # NoRange
  /\ cursor.index_ # EndIndex(ranges[cursor.range_], value_mask_)
  /\ LET rg == ranges[cursor.range_]
         j == IncrLoop(rg, value_mask_, cursor.index_)
     IN  cursor' = [cursor EXCEPT !.index_ = j,
                                  !.steps = @ + 1,
                                  !.yielded = IF j # EndIndex(rg, value_mask_)
                                              THEN Append(@, j) ELSE @]
  /\ UNCHANGED <<ctx_state, num_keys_, value_mask_, lkey_slots, ranges>>
  /\ UNCHANGED readerVars


Next ==
  \/ \E n \in BatchSizes : Construct(n)
  \/ Destroy
  \/ Len(ranges) < MaxRanges /\ GetMultiGetRange
  \/ /\ Len(ranges) < MaxRanges
     /\ \E p \in 1..Len(ranges) : \E first \in IteratorsOf(p), last \in IteratorsOf(p) :
          SubRange(p, first, last)
  \/ \E r \in 1..Len(ranges) : \E iter \in IteratorsOf(r) : SkipKey(r, iter)
  \/ \E r \in 1..Len(ranges) : \E iter \in IteratorsOf(r) : MarkKeyDone(r, iter)

(***************************************************************************)
(* AsyncFileReader.  A ReadAwaiter lives in the frame of the coroutine     *)
(* that co_awaits it; the model names the awaiter by its address, one      *)
(* address per coroutine frame, so a coroutine that awaits again builds    *)
(* its new awaiter where the old one was.  Vector index i of the source    *)
(* is index i + 1 here.                                                    *)
(***************************************************************************)
NullPtr == 0

Addrs == 1..MaxFlows

\* what ReadAsync does with one request: hands out an io_handle and del_fn
\* and completes later ("async"), or fails to submit, leaving the handle
\* null and never running the callback ("fail")
Outcomes == {"async", "sync", "fail"}

NoAwaiter ==
  [id |-> 0, coro |-> "none", num_reqs_ |-> 0, next_ |-> NullPtr,
   io_handle_ |-> <<>>, del_fn_ |-> <<>>, read_reqs_ |-> <<>>, issued |-> <<>>,
   outcome |-> <<>>]

\* ReadAwaiter(...) as co_await builds it: num_reqs_ requests, none with a
\* status or result yet, next_ null, empty io_handle_ and del_fn_
NewAwaiter(id, n) ==
  [id |-> id, coro |-> "suspended", num_reqs_ |-> n, next_ |-> NullPtr,
   io_handle_ |-> <<>>, del_fn_ |-> <<>>,
   read_reqs_ |-> [i \in 1..n |-> "unset"], issued |-> [i \in 1..n |-> NullPtr],
   outcome |-> [i \in 1..n |-> "none"]]

\* std::vector::resize(n) on a vector of pointers
Resize(v, n) == [i \in 1..n |-> IF i <= Len(v) THEN v[i] ELSE NullPtr]

\* the callback handed to ReadAsync: read_req->status = req.status;
\* read_req->result = req.result
Callback(aw, i) == [aw EXCEPT !.read_reqs_[i] = "done"]

\* one turn of the submission loop for request i with the handle h the file
\* system would give: push_back(nullptr) on both vectors, then ReadAsync
\* with &read_reqs_[i], &io_handle_[i], &del_fn_[i]
SubmitOneAppended(aw, i, out, h) ==
  LET pushed == [aw EXCEPT !.io_handle_ = Append(@, NullPtr),
                           !.del_fn_ = Append(@, NullPtr),
                           !.outcome[i] = out]
      last == Len(pushed.io_handle_)
  IN  CASE out = "async" ->
             [pushed EXCEPT !.io_handle_[last] = h, !.del_fn_[last] = h,
                            !.issued[i] = h]
        [] out = "sync" -> Callback(pushed, i)
        [] OTHER -> pushed

SubmitOne(aw, i, out, h) ==
  LET pushed == [aw EXCEPT !.io_handle_ = Append(@, NullPtr),
                           !.del_fn_ = Append(@, NullPtr),
                           !.outcome[i] = out]
  IN  CASE out = "async" ->
             [pushed EXCEPT !.io_handle_[i] = h, !.del_fn_[i] = h,
                            !.issued[i] = h]
        [] out = "sync" -> Callback(pushed, i)
        [] OTHER -> pushed

\* for (i = 0; i < num_reqs_; ++i) ...: the awaiter after the turns from i on;
\* the file system numbers the handles it gives out from h
RECURSIVE SubmitLoop(_, _, _, _)
SubmitLoop(aw, i, outs, h) ==
  IF i > aw.num_reqs_ THEN aw
  ELSE SubmitLoop(SubmitOne(aw, i, outs[i], h), i + 1, outs,
                  IF outs[i] = "async" THEN h + 1 ELSE h)

\* the requests submitted so far: those of the Wait() calls that returned,
\* as recorded, and those tallied since
RECURSIVE SumSeq(_)
SumSeq(q) == IF q = <<>> THEN 0 ELSE Head(q) + SumSeq(Tail(q))

ReqsSubmitted == SumSeq(histogram) + num_reqs_

HandlesGiven(outs) == Cardinality({i \in DOMAIN outs : outs[i] = "async"})

\* if (tail_) tail_->next_ = awaiter  (the awaiter already stands at its
\* address when this runs)
LinkAtTail(aws, t, a) ==
  IF t # NullPtr THEN [aws EXCEPT ![t].next_ = a] ELSE aws

\* num_reqs_ += awaiter->num_reqs_
NumReqsAfterEnqueue(total, n) == total + n

\* bool MultiReadAsyncImpl(ReadAwaiter* awaiter), the awaiter built at
\* address a with Len(outs) requests
MultiReadAsyncImpl(a, outs) ==
  LET n == Len(outs)
      built == [awaiters EXCEPT ![a] = NewAwaiter(next_id, n)]
      linked == LinkAtTail(built, tail_, a)
      sized == [linked[a] EXCEPT !.io_handle_ = Resize(@, n),
                                 !.del_fn_ = Resize(@, n)]
  IN  /\ next_id <= MaxEnqueues
      /\ ReqsSubmitted + n <= MaxReqs
      /\ tail_' = a
      /\ head_' = IF head_ = NullPtr THEN a ELSE head_
      /\ num_reqs_' = NumReqsAfterEnqueue(num_reqs_, n)
      /\ awaiters' = [linked EXCEPT ![a] = SubmitLoop(sized, 1, outs, next_handle)]
      /\ next_handle' = next_handle + HandlesGiven(outs)
      /\ next_id' = next_id + 1

\* the request sets a caller may hand over: one outcome per request, within
\* what is left of the bound on requests
RequestSets == UNION {[1..n -> Outcomes] : n \in 1..(MaxReqs - ReqsSubmitted)}

\* the frame of a coroutine being started takes the lowest address that
\* holds no coroutine, or none that has not come to its end
FreeAddr(a) ==
  /\ awaiters[a].coro \in {"none", "done"}
  /\ \A b \in Addrs : b < a => awaiters[b].coro \notin {"none", "done"}

\* a coroutine is started by the code driving the reader and co_awaits
\* MultiReadAsync
StartFlow(a, outs) ==
  /\ pc = "idle"
  /\ FreeAddr(a)
  /\ MultiReadAsyncImpl(a, outs)
  /\ wait_pending' = wait_pending \cup {next_id}
  /\ UNCHANGED <<pc, waiter, polls, resumed, deleted, histogram, wait_calls,
                 drained_reqs>>
  /\ UNCHANGED ctxVars

\* the first loop of Wait(): the non-null io_handle_[i], i < num_reqs_, of
\* the waiters from w on, while (waiter != tail_ && (waiter = waiter->next_))
RECURSIVE CollectHandles(_)
CollectHandles(w) ==
  LET aw == awaiters[w]
      own == SelectSeq([i \in 1..aw.num_reqs_ |-> aw.io_handle_[i]],
                       LAMBDA h : h # NullPtr)
  IN  IF w # tail_ /\ aw.next_ # NullPtr
      THEN own \o CollectHandles(aw.next_)
      ELSE own

\* the waiter the first loop stops at
RECURSIVE LastCollected(_)
LastCollected(w) ==
  IF w # tail_ /\ awaiters[w].next_ # NullPtr
  THEN LastCollected(awaiters[w].next_)
  ELSE w

SeqToSet(q) == {q[i] : i \in DOMAIN q}

\* FileSystem::Poll(io_handles, io_handles.size()): returns when every
\* handle given has completed; a completion runs the request's callback
RECURSIVE CompleteFrom(_, _, _)
CompleteFrom(aw, i, handles) ==
  IF i > aw.num_reqs_ THEN aw
  ELSE CompleteFrom(IF aw.issued[i] # NullPtr /\ aw.issued[i] \in SeqToSet(handles)
                    THEN Callback(aw, i) ELSE aw,
                    i + 1, handles)

PollCompletes(aw, handles) == CompleteFrom(aw, 1, handles)

\* the samples of MULTIGET_IO_BATCH_SIZE after a Wait() that found no waiter:
\* the return at line 41 comes before RecordInHistogram
EarlyReturnRecords(hist, n) == Append(hist, n)

HistogramOnEarlyReturn(hist, n) == hist

\* Wait() with nothing pending: if (!head_) return;
WaitNoWaiter ==
  /\ pc = "idle"
  /\ wait_calls < MaxWaits
  /\ head_ = NullPtr
  /\ wait_calls' = wait_calls + 1
  /\ histogram' = HistogramOnEarlyReturn(histogram, num_reqs_)
  /\ UNCHANGED <<head_, tail_, num_reqs_, awaiters, pc, waiter, polls, resumed,
                 deleted, next_handle, next_id, wait_pending, drained_reqs>>
  /\ UNCHANGED ctxVars

\* Wait() up to its second loop: collect the handles, poll if there are any
WaitPoll ==
  /\ pc = "idle"
  /\ wait_calls < MaxWaits
  /\ head_ # NullPtr
  /\ wait_calls' = wait_calls + 1
  /\ LET io_handles == CollectHandles(head_)
     IN  /\ waiter' = LastCollected(head_)
         /\ IF Len(io_handles) > 0
            THEN /\ polls' = Append(polls, io_handles)
                 /\ awaiters' = [a \in Addrs |-> PollCompletes(awaiters[a], io_handles)]
            ELSE UNCHANGED <<polls, awaiters>>
  /\ pc' = "drain"
  /\ UNCHANGED <<head_, tail_, num_reqs_, resumed, deleted, histogram,
                 next_handle, next_id, wait_pending, drained_reqs>>
  /\ UNCHANGED ctxVars

\* the del_fn_ calls of one turn of the second loop
Cleanups(aw) ==
  SelectSeq([i \in 1..aw.num_reqs_ |->
               IF aw.io_handle_[i] # NullPtr /\ aw.del_fn_[i] # NullPtr
               THEN aw.io_handle_[i] ELSE NullPtr],
            LAMBDA h : h # NullPtr)

\* which waiter a turn of the second loop takes: waiter = head_
TakeTail(h, t) == t

TakeHead(h, t) == h

\* one turn of the second loop, up to and into awaiting_coro_.resume()
WaitResume ==
  /\ pc = "drain"
  /\ LET w == TakeHead(head_, tail_)
     IN  /\ waiter' = w
         /\ head_' = awaiters[w].next_
         /\ deleted' = deleted \o Cleanups(awaiters[w])
         /\ resumed' = Append(resumed, awaiters[w].id)
         /\ awaiters' = [awaiters EXCEPT ![w].coro = "running"]
         /\ drained_reqs' = drained_reqs + awaiters[w].num_reqs_
  /\ pc' = "resumed"
  /\ UNCHANGED <<tail_, num_reqs_, polls, histogram, next_handle, next_id,
                 wait_pending, wait_calls>>
  /\ UNCHANGED ctxVars

\* the resumed coroutine runs to its end; resume() returns
CoroutineEnds ==
  /\ pc = "resumed"
  /\ awaiters' = [awaiters EXCEPT ![waiter].coro = "done"]
  /\ pc' = "back"
  /\ UNCHANGED <<head_, tail_, num_reqs_, waiter, polls, resumed, deleted,
                 histogram, next_handle, next_id, wait_pending, wait_calls,
                 drained_reqs>>
  /\ UNCHANGED ctxVars

\* the resumed coroutine co_awaits MultiReadAsync again: its new awaiter is
\* built in its frame, where the one just resumed was; resume() returns
CoroutineAwaitsAgain(outs) ==
  /\ pc = "resumed"
  /\ MultiReadAsyncImpl(waiter, outs)
  /\ pc' = "back"
  /\ UNCHANGED <<waiter, polls, resumed, deleted, histogram, wait_pending,
                 wait_calls,
                 drained_reqs>>
  /\ UNCHANGED ctxVars

\* the resumed coroutine starts another coroutine, which co_awaits
\* MultiReadAsync from a frame of its own
CoroutineStartsFlow(a, outs) ==
  /\ pc = "resumed"
  /\ FreeAddr(a)
  /\ MultiReadAsyncImpl(a, outs)
  /\ UNCHANGED <<pc, waiter, polls, resumed, deleted, histogram, wait_pending,
                 wait_calls,
                 drained_reqs>>
  /\ UNCHANGED ctxVars

\* } while (waiter != tail_); with more to drain
WaitNextTurn ==
  /\ pc = "back"
  /\ waiter # tail_
  /\ pc' = "drain"
  /\ UNCHANGED <<head_, tail_, num_reqs_, awaiters, waiter, polls, resumed,
                 deleted, histogram, next_handle, next_id, wait_pending,
                 wait_calls,
                 drained_reqs>>
  /\ UNCHANGED ctxVars

\* the loop ends: head_ = tail_ = nullptr; RecordInHistogram(num_reqs_);
\* num_reqs_ = 0; Wait() returns
WaitReturn ==
  /\ pc = "back"
  /\ waiter = tail_
  /\ head_' = NullPtr
  /\ tail_' = NullPtr
  /\ histogram' = Append(histogram, num_reqs_)
  /\ num_reqs_' = 0
  /\ pc' = "idle"
  /\ wait_pending' = {}
  /\ drained_reqs' = 0
  /\ UNCHANGED <<awaiters, waiter, polls, resumed, deleted, next_handle, next_id,
                 wait_calls>>
  /\ UNCHANGED ctxVars

InitReader ==
  /\ head_ = NullPtr
  /\ tail_ = NullPtr
  /\ num_reqs_ = 0
  /\ awaiters = [a \in Addrs |-> NoAwaiter]
  /\ pc = "idle"
  /\ waiter = NullPtr
  /\ polls = <<>>
  /\ resumed = <<>>
  /\ deleted = <<>>
  /\ histogram = <<>>
  /\ next_handle = 1
  /\ next_id = 1
  /\ wait_pending = {}
  /\ wait_calls = 0
  /\ drained_reqs = 0

ReaderNext ==
  \/ \E a \in Addrs, outs \in RequestSets : StartFlow(a, outs)
  \/ WaitNoWaiter
  \/ WaitPoll
  \/ WaitResume
  \/ CoroutineEnds
  \/ \E outs \in RequestSets : CoroutineAwaitsAgain(outs)
  \/ \E a \in Addrs, outs \in RequestSets : CoroutineStartsFlow(a, outs)
  \/ WaitNextTurn
  \/ WaitReturn

Init == InitCtx /\ InitReader

Spec == Init /\ [][Next]_vars

ReaderSpec == Init /\ [][ReaderNext]_vars

\* A family of Ranges: the full Range and two sub-ranges of it, siblings.
FamilyNext ==
  \/ \E n \in BatchSizes : Construct(n)
  \/ Destroy
  \/ Len(ranges) = 0 /\ GetMultiGetRange
  \/ /\ Len(ranges) \in {1, 2}
     /\ \E first \in IteratorsOf(1), last \in IteratorsOf(1) : SubRange(1, first, last)
  \/ \E r \in 1..Len(ranges) : \E iter \in IteratorsOf(r) : SkipKey(r, iter)
  \/ \E r \in 1..Len(ranges) : \E iter \in IteratorsOf(r) : MarkKeyDone(r, iter)

FamilySpec == Init /\ [][FamilyNext]_vars

\* A chain of Ranges: the full Range, a sub-range of it, and a sub-range of
\* that one.
ChainNext ==
  \/ \E n \in BatchSizes : Construct(n)
  \/ Destroy
  \/ Len(ranges) = 0 /\ GetMultiGetRange
  \/ /\ Len(ranges) \in {1, 2}
     /\ \E first \in IteratorsOf(Len(ranges)), last \in IteratorsOf(Len(ranges)) :
          SubRange(Len(ranges), first, last)
  \/ \E r \in 1..Len(ranges) : \E iter \in IteratorsOf(r) : SkipKey(r, iter)
  \/ \E r \in 1..Len(ranges) : \E iter \in IteratorsOf(r) : MarkKeyDone(r, iter)

ChainSpec == Init /\ [][ChainNext]_vars

\* A caller that iterates one Range while keys are marked done and skipped
\* through the full Range and a sub-range of it.
IterNext ==
  \/ \E n \in BatchSizes : Construct(n)
  \/ Destroy
  \/ Len(ranges) = 0 /\ GetMultiGetRange
  \/ /\ Len(ranges) = 1
     /\ \E first \in IteratorsOf(1), last \in IteratorsOf(1) : SubRange(1, first, last)
  \/ \E r \in 1..Len(ranges) : \E iter \in IteratorsOf(r) : SkipKey(r, iter)
  \/ \E r \in 1..Len(ranges) : \E iter \in IteratorsOf(r) : MarkKeyDone(r, iter)
  \/ \E r \in 1..Len(ranges) : IterBegin(r)
  \/ IterIncr

IterSpec == Init /\ [][IterNext]_vars

(***************************************************************************)
(* Properties                                                              *)
(***************************************************************************)
RangeIds == 1..Len(ranges)

\* the elements of a finite set of numbers, in increasing order
RECURSIVE Ascending(_)
Ascending(S) ==
  IF S = {} THEN <<>>
  ELSE LET m == CHOOSE x \in S : \A y \in S : x <= y
       IN  <<m>> \o Ascending(S \ {m})

\* the positions of a Range that neither mask holds
Unmasked(rg, vm) ==
  {i \in rg.start_..(rg.end_ - 1) : i \notin vm /\ i \notin rg.skip_mask_}

\* 1ull << index_ is defined wherever the model shifts
IndexInWord ==
  ctx_state = "live" =>
    \A r \in RangeIds : ranges[r].start_ <= ranges[r].end_ /\ ranges[r].end_ < MaskBits

\* C1: iterating a Range from begin() with ++ until end() visits exactly the
\* positions of [start_, end_) set in neither value_mask_ nor the Range's
\* skip_mask_, each once, in increasing order; with nothing masked the full
\* Range visits all num_keys_ positions.
C1_IterationVisitsUnmasked ==
  ctx_state = "live" =>
    \A r \in RangeIds :
      /\ Iterate(ranges[r], value_mask_) = Ascending(Unmasked(ranges[r], value_mask_))
      /\ (ranges[r].parent = NoRange /\ value_mask_ = {} /\ ranges[r].skip_mask_ = {})
           => Len(Iterate(ranges[r], value_mask_)) = num_keys_

C1_Witness ==
  /\ ctx_state = "live"
  /\ \E r \in RangeIds :
       /\ ranges[r].start_ = 0 /\ ranges[r].end_ = 2
       /\ value_mask_ = {0}
       /\ Iterate(ranges[r], value_mask_) = <<1>>

\* C2: right after MarkKeyDone(i) through any Range, CheckKeyDone(i) is true
\* on every Range of the context and no iteration of any of them visits i.
C2_MarkKeyDoneSeenByAll ==
  [][(ctx_state = "live" /\ value_mask_' # value_mask_) =>
       \A r \in RangeIds : \A iter \in IteratorsOf(r) :
         MarkKeyDone(r, iter) =>
           \A q \in 1..Len(ranges') :
             /\ CheckKeyDone(ranges'[q], value_mask_', iter.index_)
             /\ iter.index_ \notin SeqToSet(Iterate(ranges'[q], value_mask_'))]_vars

C2_Witness ==
  /\ ctx_state = "live"
  /\ Len(ranges) >= 2
  /\ \E i \in value_mask_ :
       \A q \in RangeIds :
         /\ ranges[q].start_ <= i /\ i < ranges[q].end_
         /\ CheckKeyDone(ranges[q], value_mask_, i)

\* C3: SkipKey on a Range changes that Range's skip_mask_ and nothing else:
\* every other Range (its parent, its siblings) keeps its fields and what its
\* iteration visits, the Range keeps its bounds and context, and value_mask_
\* is unchanged.
C3_SkipKeyIsLocal ==
  [][(ctx_state = "live" /\ ranges' # ranges) =>
       \A r \in RangeIds : \A iter \in IteratorsOf(r) :
         SkipKey(r, iter) =>
           /\ value_mask_' = value_mask_
           /\ Len(ranges') = Len(ranges)
           /\ \A q \in RangeIds :
                q # r => /\ ranges'[q] = ranges[q]
                         /\ Iterate(ranges'[q], value_mask_') = Iterate(ranges[q], value_mask_)
           /\ ranges'[r] = [ranges[r] EXCEPT !.skip_mask_ = ranges'[r].skip_mask_]]_vars

\* two sub-ranges of one parent, one of which skipped a key that its sibling
\* and its parent still visit
C3_Witness ==
  /\ ctx_state = "live"
  /\ \E a \in RangeIds, b \in RangeIds :
       /\ a # b
       /\ ranges[a].parent # NoRange
       /\ ranges[a].parent = ranges[b].parent
       /\ \E i \in ranges[a].skip_mask_ :
            /\ i \in SeqToSet(Iterate(ranges[b], value_mask_))
            /\ i \in SeqToSet(Iterate(ranges[ranges[a].parent], value_mask_))
            /\ ranges[a].start_ <= i /\ i < ranges[a].end_

\* C4: empty() is true exactly when every index of [start_, end_) is set in
\* value_mask_ or in the Range's skip_mask_ (start_ = end_ included).
C4_EmptyIffAllMasked ==
  ctx_state = "live" =>
    \A r \in RangeIds :
      Empty(ranges[r], value_mask_) <=>
        \A i \in ranges[r].start_..(ranges[r].end_ - 1) :
          i \in value_mask_ \cup ranges[r].skip_mask_

C4_Witness ==
  /\ ctx_state = "live"
  /\ \E r \in RangeIds :
       /\ ranges[r].end_ - ranges[r].start_ = 2
       /\ value_mask_ # {}
       /\ ranges[r].skip_mask_ # {}
       /\ value_mask_ \cap ranges[r].skip_mask_ = {}
       /\ Empty(ranges[r], value_mask_)

\* C5: Range(parent, first, last) takes the parent's skip_mask_ as it is, the
\* position of first as start_, the position of last as end_ and the parent's
\* context; it changes no existing Range and not value_mask_.
C5_SubRangeInherits ==
  [][(ctx_state = "live" /\ ranges' # ranges) =>
       \A p \in RangeIds : \A first \in IteratorsOf(p), last \in IteratorsOf(p) :
         SubRange(p, first, last) =>
           /\ Len(ranges') = Len(ranges) + 1
           /\ ranges'[Len(ranges')].skip_mask_ = ranges[p].skip_mask_
           /\ ranges'[Len(ranges')].start_ = first.index_
           /\ ranges'[Len(ranges')].end_ = last.index_
           /\ ranges'[Len(ranges')].ctx_ = ranges[p].ctx_
           /\ \A q \in RangeIds : ranges'[q] = ranges[q]
           /\ value_mask_' = value_mask_]_vars

C5_Witness ==
  /\ ctx_state = "live"
  /\ \E c \in RangeIds :
       /\ ranges[c].parent # NoRange
       /\ ranges[c].skip_mask_ # {}
       /\ ranges[c].skip_mask_ = ranges[ranges[c].parent].skip_mask_
       /\ ranges[c].start_ > ranges[ranges[c].parent].start_

\* C6: while the context lives no bit of value_mask_ and no bit of any
\* Range's skip_mask_ is ever cleared, and MarkKeyDone(i) changes no bit of
\* value_mask_ but bit i.
C6_MasksOnlyGrow ==
  [][(ctx_state = "live" /\ ctx_state' = "live") =>
       /\ value_mask_ \subseteq value_mask_'
       /\ \A r \in RangeIds :
            r <= Len(ranges') /\ ranges[r].skip_mask_ \subseteq ranges'[r].skip_mask_
       /\ value_mask_' # value_mask_ =>
            \A r \in RangeIds : \A iter \in IteratorsOf(r) :
              MarkKeyDone(r, iter) =>
                (value_mask_' \ value_mask_) \cup (value_mask_ \ value_mask_')
                  \subseteq {iter.index_}]_vars

C6_Witness ==
  /\ ctx_state = "live"
  /\ Cardinality(value_mask_) = 2
  /\ \E r \in RangeIds : ranges[r].skip_mask_ # {}

\* C7: a batch of more keys than the masks have bits is rejected: no context
\* is built from it and no lookup key is stored for a key beyond the capacity.
C7_OversizeBatchRejected ==
  ctx_state # "none" =>
    /\ num_keys_ <= MaskBits
    /\ \A i \in lkey_slots : i < MaskBits

\* the place of awaiter id in the order of resumption
ResumedAt(id) == CHOOSE k \in DOMAIN resumed : resumed[k] = id

\* C8: of two waiters pending when Wait() was called, the one enqueued later
\* is never resumed before the one enqueued earlier.
C8_ResumedInEnqueueOrder ==
  \A x \in wait_pending, y \in wait_pending :
    (x < y /\ y \in SeqToSet(resumed)) =>
      /\ x \in SeqToSet(resumed)
      /\ ResumedAt(x) < ResumedAt(y)

C8_Witness ==
  /\ pc = "resumed"
  /\ \E x \in wait_pending, y \in wait_pending :
       /\ x < y
       /\ x \in SeqToSet(resumed)
       /\ y \in SeqToSet(resumed)

\* the io_handles the file system gave to the waiters pending at Wait()
PendingHandles ==
  UNION {SeqToSet(awaiters[a].issued) \ {NullPtr} :
           a \in {b \in Addrs : awaiters[b].id \in wait_pending}}

WaitBegins == pc = "idle" /\ pc' = "drain"

\* C9 as stated: a Wait() with a pending waiter polls exactly once, with
\* exactly the handles given to the pending waiters.
C9_ExactlyOnePoll ==
  [][/\ WaitBegins =>
          /\ Len(polls') = Len(polls) + 1
          /\ SeqToSet(polls'[Len(polls')]) = PendingHandles
     /\ ~WaitBegins => polls' = polls]_vars

\* C9 amended: a Wait() with a pending waiter polls at most once: once, with
\* exactly the handles given to the pending waiters, each one time, when
\* there is such a handle, and not at all when every handle is null.
C9_OnePollOfIssuedHandles ==
  [][/\ (WaitBegins /\ PendingHandles # {}) =>
          /\ Len(polls') = Len(polls) + 1
          /\ SeqToSet(polls'[Len(polls')]) = PendingHandles
          /\ Len(polls'[Len(polls')]) = Cardinality(PendingHandles)
     /\ (WaitBegins /\ PendingHandles = {}) => polls' = polls
     /\ ~WaitBegins => polls' = polls]_vars

\* two pending waiters with handles, polled together in one call
C9_Witness ==
  /\ pc = "drain"
  /\ Cardinality(wait_pending) = 2
  /\ Len(polls) = 1
  /\ \A a \in Addrs : awaiters[a].id \in wait_pending =>
       \E i \in 1..awaiters[a].num_reqs_ :
         awaiters[a].issued[i] # NullPtr /\ awaiters[a].issued[i] \in SeqToSet(polls[1])

\* C10: when a continuation runs, Wait() is executing and every request of
\* the waiter resumed and of the waiters still to be drained has its status
\* and result.
C10_ResultsReadyAtResume ==
  pc = "resumed" =>
    \A a \in Addrs :
      (a = waiter \/ awaiters[a].id \in wait_pending) =>
        \A i \in 1..awaiters[a].num_reqs_ : awaiters[a].read_reqs_[i] = "done"

\* the number of times awaiter id was resumed
TimesResumed(q, id) == Cardinality({k \in DOMAIN q : q[k] = id})

WaitReturns == pc = "back" /\ pc' = "idle"

\* C11: when Wait() returns, head_ and tail_ are null, num_reqs_ is zero and
\* every waiter that was pending when Wait() was called has been resumed
\* exactly once.
C11_WaitLeavesIdle ==
  [][WaitReturns =>
       /\ head_' = NullPtr
       /\ tail_' = NullPtr
       /\ num_reqs_' = 0
       /\ \A x \in wait_pending : TimesResumed(resumed', x) = 1]_vars

WaitCalled == wait_calls' = wait_calls + 1

\* C12: a Wait() called with no pending waiter polls nothing, cleans up
\* nothing, resumes nothing, records no sample and leaves head_ and tail_ null
\* and num_reqs_ zero.
C12_WaitNoWaiterIsNoOp ==
  [][(WaitCalled /\ head_ = NullPtr) =>
       /\ polls' = polls
       /\ deleted' = deleted
       /\ resumed' = resumed
       /\ histogram' = histogram
       /\ awaiters' = awaiters
       /\ pc' = "idle"
       /\ head_' = NullPtr /\ tail_' = NullPtr /\ num_reqs_' = 0]_vars

\* a Wait() with nothing pending, called after one that drained a waiter
C12_Witness ==
  /\ wait_calls = 2
  /\ Len(histogram) = 1
  /\ Len(resumed) >= 1
  /\ pc = "idle"
  /\ head_ = NullPtr

\* C13: a request whose ReadAsync submission failed carries the failure in
\* its status when its flow is resumed, and the other requests of the waiter
\* carry their own results.
C13_SubmitFailureSurfaced ==
  \A a \in Addrs :
    awaiters[a].coro = "running" =>
      \A i \in 1..awaiters[a].num_reqs_ :
        /\ awaiters[a].outcome[i] = "fail" => awaiters[a].read_reqs_[i] = "error"
        /\ awaiters[a].outcome[i] = "sync" => awaiters[a].read_reqs_[i] = "done"

IterSteps == cursor'.steps = cursor.steps + 1

\* C15: each ++ moves the iterator to the smallest position after the current
\* one and below end_ that is in neither mask when the step is taken, or to
\* end_ when there is none; a position marked done or skipped ahead of the
\* iterator is never visited, and the iteration takes at most end_ - start_
\* steps.
C15_IncrementRechecksMasks ==
  [][IterSteps =>
       LET rg == ranges[cursor.range_]
           masked == value_mask_ \cup rg.skip_mask_
           ahead == {j \in (cursor.index_ + 1)..(rg.end_ - 1) : j \notin masked}
       IN  /\ cursor'.index_ = IF ahead = {} THEN rg.end_
                               ELSE CHOOSE j \in ahead : \A k \in ahead : j <= k
           /\ \A p \in masked : p > cursor.index_ => p \notin SeqToSet(cursor'.yielded)
           /\ cursor'.steps <= rg.end_ - rg.start_]_vars

\* an iteration that ended having passed over a key masked after it began
C15_Witness ==
  /\ ctx_state = "live"
  /\ cursor.range_ # NoRange
  /\ cursor.steps >= 1
  /\ cursor.yielded # <<>>
  /\ cursor.index_ = ranges[cursor.range_].end_
  /\ \E p \in (value_mask_ \cup ranges[cursor.range_].skip_mask_) \ cursor.at_begin :
       /\ p > cursor.yielded[1]
       /\ p < ranges[cursor.range_].end_
       /\ p \notin SeqToSet(cursor.yielded)

\* C16: the lookup keys of a batch of at most MAX_KEYS_ON_STACK keys are in
\* the inline slots 0..num_keys_-1; those of a larger batch are in a heap
\* region, and no inline slot with index >= MAX_KEYS_ON_STACK is written.
C16_LookupKeysInlineOrHeap ==
  ctx_state # "none" =>
    /\ num_keys_ <= MAX_KEYS_ON_STACK => lkey_slots = 0..(num_keys_ - 1)
    /\ num_keys_ > MAX_KEYS_ON_STACK => lkey_slots = {}
    /\ \A i \in lkey_slots : i < MAX_KEYS_ON_STACK

\* C17: an enqueued waiter with n requests holds exactly n io_handle_ entries
\* and exactly n del_fn_ entries, entry i being what the submission of its
\* request i produced.
C17_OneHandlePerRequest ==
  \A a \in Addrs :
    awaiters[a].id # 0 =>
      /\ Len(awaiters[a].io_handle_) = awaiters[a].num_reqs_
      /\ Len(awaiters[a].del_fn_) = awaiters[a].num_reqs_
      /\ \A i \in 1..awaiters[a].num_reqs_ :
           /\ awaiters[a].io_handle_[i] = awaiters[a].issued[i]
           /\ awaiters[a].del_fn_[i] = awaiters[a].issued[i]

\* the non-null io_handles the file system gave to an awaiter, in request order
IssuedHandles(aw) ==
  SelectSeq([i \in 1..aw.num_reqs_ |-> aw.issued[i]], LAMBDA h : h # NullPtr)

PolledHandles == UNION {SeqToSet(polls[k]) : k \in DOMAIN polls}

ResumeBegins == pc = "drain" /\ pc' = "resumed"

\* C18: Wait() passes every non-null io_handle of the waiter it is about to
\* resume to its del_fn_, once, after the poll that included the handle and
\* before the continuation runs; it cleans up no null handle, and when it
\* returns no handle given out is left without cleanup.
C18_CleanupBeforeResume ==
  [][/\ ResumeBegins =>
          /\ deleted' = deleted \o IssuedHandles(awaiters[waiter'])
          /\ SeqToSet(IssuedHandles(awaiters[waiter'])) \subseteq PolledHandles
     /\ ~ResumeBegins => deleted' = deleted
     /\ NullPtr \notin SeqToSet(deleted')
     /\ \A h \in SeqToSet(deleted') : TimesResumed(deleted', h) = 1
     /\ WaitReturns => \A h \in 1..(next_handle - 1) : h \in SeqToSet(deleted')]_vars

\* the requests of the waiters on the pending list from w on
RECURSIVE ListReqs(_)
ListReqs(w) ==
  IF w = NullPtr THEN 0
  ELSE awaiters[w].num_reqs_ +
         (IF w # tail_ /\ awaiters[w].next_ # NullPtr
          THEN ListReqs(awaiters[w].next_) ELSE 0)

\* C19: outside Wait(), num_reqs_ is the sum of the request counts of the
\* waiters on the pending list; a Wait() that found a waiter records exactly
\* one sample, the total number of requests of the waiters it drained, and
\* nothing else records a sample.
C19_CounterTalliesPending ==
  [][/\ pc' = "idle" => num_reqs_' = ListReqs(head_)'
     /\ WaitReturns => histogram' = Append(histogram, drained_reqs)
     /\ ~WaitReturns => histogram' = histogram]_vars

\* C20: a waiter is resumed, and its handles cleaned up, only after a poll
\* that included its handles has returned, also when it was enqueued by a
\* continuation during the drain; the drain resumes no waiter enqueued while
\* it runs.
C20_NoResumeWithoutPoll ==
  [][ResumeBegins =>
       /\ SeqToSet(IssuedHandles(awaiters[waiter'])) \subseteq PolledHandles
       /\ SeqToSet(Cleanups(awaiters[waiter'])) \subseteq PolledHandles
       /\ awaiters[waiter'].id \in wait_pending]_vars

====
